---------------------------- MODULE Spec2Model ----------------------------
(***************************************************************************)
(* A model of the parameter/variable allocator of the GXP -> SPIR-V shader *)
(* recompiler (shader/types.h, shader/src/spirv_recompiler.cpp).           *)
(*                                                                         *)
(* Conventions.                                                            *)
(*  - A string (a variable or parameter name) is a sequence of tokens.     *)
(*    Every '_' and every '.' of the string is a token of its own; a token *)
(*    that is neither holds a run of other characters.  The operations     *)
(*    the code applies to names (std::unique on '_', std::replace of '.',  *)
(*    find('.'), fmt::format) act on these tokens exactly as on the        *)
(*    characters.                                                          *)
(*  - A spv::Id of a type is the structural description of the type (the   *)
(*    builder returns the same id for the same type); a spv::Id of a       *)
(*    variable is its 1-based position in the builder's variable list      *)
(*    (createVariable always returns a fresh id).  NoResult is 0.          *)
(*  - Offsets and sizes are uint32_t in the code; every sum the bounded    *)
(*    model forms is far below 2^32, so no reduction is applied.           *)
(***************************************************************************)
EXTENDS Integers, Sequences, FiniteSets, TLC

VARIABLES
    pc,                 \* position in convert_gxp_to_glsl / create_parameters
    assertions,         \* build: TRUE when assert() is compiled in (no NDEBUG)
    program_type,       \* program.get_type()
    params,             \* gxp_parameters[0 .. i-1], the descriptors scanned so far
    fragment_inputs,    \* gxp::get_fragment_inputs(program), once read
    vertex_outputs,     \* gxp::get_vertex_outputs(program), once read
    temp_reg_count1,    \* program.temp_reg_count1, once read
    native_color,       \* program.is_native_color(), once read
    primary_reg_count,  \* program.primary_reg_count, once read
    invalid_opcode,     \* the instruction stream holds an INVALID opcode, once read
    b,                  \* spv::Builder: variables, decorations, entry point
    spv_params,         \* SpirvShaderParameters: the six register banks
    param_struct,       \* StructDeclContext of the scan
    spirv,              \* SpirvCode returned by convert_gxp_to_spirv
    glsl,               \* std::string returned by convert_gxp_to_glsl
    bank,               \* a stand-alone SpirvVarRegBank (bank-level checks)
    query,              \* last find_reg_at call on `bank` and what it returned
    swizzle,            \* last call of a swizzle helper and what it returned
    derived,            \* last stand-alone call of get_param_type and its outcome
    threads,            \* concurrent recompilations: the locals of each thread
    statics             \* function-local static tables constructed so far

program_vars == <<program_type, params, fragment_inputs, vertex_outputs,
                  temp_reg_count1, native_color, primary_reg_count, invalid_opcode>>
recompiler_vars == <<pc, assertions, b, spv_params, param_struct, spirv, glsl>>
bank_vars == <<bank, query>>
swizzle_vars == <<swizzle>>
type_vars == <<derived>>
thread_vars == <<threads, statics>>
vars == <<program_vars, recompiler_vars, bank_vars, swizzle_vars, type_vars,
          thread_vars>>

(***************************************************************************)
(* Bounds of the exploration.                                              *)
(***************************************************************************)
MaxParams == 3          \* program.parameter_count <= MaxParams
MaxTempRegs == 1        \* program.temp_reg_count1 <= MaxTempRegs
MaxPrimaryRegs == 3     \* program.primary_reg_count <= MaxPrimaryRegs
MaxPushes == 3          \* pushes on the stand-alone bank
MaxPushSize == 4        \* size argument of a stand-alone push
MaxIndex == 13          \* index argument of a stand-alone find_reg_at
MaxSwLen == 5           \* sw_len argument of is_default
MaxComponentCount == 4  \* component_count of a stand-alone type derivation
MaxArraySize == 5       \* array_size of a stand-alone type derivation

(***************************************************************************)
(* Sequence helpers.                                                       *)
(***************************************************************************)
RECURSIVE SumSizes(_)
SumSizes(regs) ==
    IF regs = <<>> THEN 0 ELSE regs[1].size + SumSizes(Tail(regs))

Last(s) == s[Len(s)]

(***************************************************************************)
(* SpirvReg / SpirvVarRegBank (shader/types.h).                            *)
(***************************************************************************)
NoResult == 0

EmptyBank == [vars |-> <<>>, next_offset |-> 0]

\* Placeholder type id of variables pushed on the stand-alone bank.
NoType == [kind |-> "none", base |-> "none", width |-> 0, n |-> 0, name |-> <<>>,
           field_ids |-> <<>>, field_names |-> <<>>, block |-> FALSE]

NoReg == [type_id |-> NoType, var_id |-> NoResult, offset |-> 0, size |-> 0]

push_no_advance(bk, var, size) ==
    [vars |-> Append(bk.vars, [type_id |-> var.type_id, var_id |-> var.var_id,
                               offset |-> bk.next_offset, size |-> size]),
     next_offset |-> bk.next_offset]

\* void push(const SpirvVar &var, uint32_t size)
push(bk, var, size) ==
    [vars |-> Append(bk.vars, [type_id |-> var.type_id, var_id |-> var.var_id,
                               offset |-> bk.next_offset, size |-> size]),
     next_offset |-> bk.next_offset + size]

\* size_t size() const
size(bk) == SumSizes(bk.vars)

RECURSIVE find_in(_, _, _, _)
find_in(regs, index, out_reg, out_comp_offset) ==
    IF regs = <<>>
    THEN [found |-> FALSE, out_reg |-> out_reg, out_comp_offset |-> out_comp_offset]
    ELSE IF index >= regs[1].offset /\ index < regs[1].offset + regs[1].size
         THEN [found |-> TRUE, out_reg |-> regs[1],
               out_comp_offset |-> index - regs[1].offset]
         ELSE find_in(Tail(regs), index, out_reg, out_comp_offset)

find_reg_at_inclusive_end(bk, index, out_reg, out_comp_offset) ==
    LET hits == {i \in 1..Len(bk.vars) :
                    /\ index >= bk.vars[i].offset
                    /\ index <= bk.vars[i].offset + bk.vars[i].size}
        first == CHOOSE i \in hits : \A j \in hits : i <= j
    IN  IF hits = {}
        THEN [found |-> FALSE, out_reg |-> out_reg, out_comp_offset |-> out_comp_offset]
        ELSE [found |-> TRUE, out_reg |-> bk.vars[first],
              out_comp_offset |-> index - bk.vars[first].offset]

\* bool find_reg_at(uint32_t index, SpirvReg &out_reg, uint32_t &out_comp_offset) const
\* The result holds the return value and the two out-parameters, which keep
\* the caller's values when nothing is found.
find_reg_at(bk, index, out_reg, out_comp_offset) ==
    find_in(bk.vars, index, out_reg, out_comp_offset)

(***************************************************************************)
(* SwizzleChannel, Swizzle3, Swizzle4 (shader/types.h).  A std::array of   *)
(* N channels is a sequence of length N: sw[i] of the code is sw[i + 1].   *)
(***************************************************************************)
SwizzleChannel == {"_X", "_Y", "_Z", "_W", "_0", "_1", "_2", "_H", "_UNDEFINED"}

Swizzle3 == [1..3 -> SwizzleChannel]
Swizzle4 == [1..4 -> SwizzleChannel]

SWIZZLE_CHANNEL_4_DEFAULT == <<"_X", "_Y", "_Z", "_W">>
SWIZZLE_CHANNEL_4_UNDEFINED == <<"_UNDEFINED", "_UNDEFINED", "_UNDEFINED", "_UNDEFINED">>
SWIZZLE_CHANNEL_3_UNDEFINED == <<"_UNDEFINED", "_UNDEFINED", "_UNDEFINED">>

to_swizzle4_keep_w(sw) == <<sw[1], sw[2], sw[3], "_W">>

\* inline Swizzle4 to_swizzle4(Swizzle3 sw)
to_swizzle4(sw) == <<sw[1], sw[2], sw[3], "_X">>

is_default_last_only(sw, sw_len) ==
    CASE sw_len = 4 -> sw[4] = "_W"
      [] sw_len = 3 -> sw[3] = "_Z"
      [] sw_len = 2 -> sw[2] = "_Y"
      [] sw_len = 1 -> sw[1] = "_X"
      [] OTHER -> TRUE

\* inline bool is_default(Swizzle4 sw, Imm4 sw_len = 4): the switch enters
\* at case sw_len and falls through every case below it; no case matches a
\* length outside 1..4 and res stays true.
is_default(sw, sw_len) ==
    LET res0 == TRUE
        res4 == IF sw_len = 4 /\ sw[4] # "_W" THEN FALSE ELSE res0
        res3 == IF sw_len \in {3, 4} /\ sw[3] # "_Z" THEN FALSE ELSE res4
        res2 == IF sw_len \in {2, 3, 4} /\ sw[2] # "_Y" THEN FALSE ELSE res3
        res1 == IF sw_len \in {1, 2, 3, 4} /\ sw[1] # "_X" THEN FALSE ELSE res2
    IN  res1

(***************************************************************************)
(* Names.                                                                  *)
(***************************************************************************)
\* static void sanitize_variable_name(std::string &var_name): std::unique
\* with the predicate c1 == c2 && c2 == '_' keeps a character unless it and
\* the one before it are both '_'.
sanitize_variable_name(var_name) ==
    LET keep == {i \in 1..Len(var_name) :
                    ~(i > 1 /\ var_name[i - 1] = var_name[i] /\ var_name[i] = "_")}
        F[i \in 0..Len(var_name)] ==
            IF i = 0 THEN <<>>
            ELSE IF i \in keep THEN Append(F[i - 1], var_name[i]) ELSE F[i - 1]
    IN  F[Len(var_name)]

\* std::replace(var_name.begin(), var_name.end(), '.', '_')
replace_dots(var_name) ==
    [i \in 1..Len(var_name) |-> IF var_name[i] = "." THEN "_" ELSE var_name[i]]

\* fmt::format("{}_{}", var_name, p)
format_elem_name(var_name, p) == var_name \o <<"_", ToString(p)>>

\* fmt::format("r{}", i) and fmt::format("i{}", i)
format_reg_name(prefix, i) == <<prefix \o ToString(i)>>

\* Position of the first '.' of a name, 0 when there is none (std::string::find).
find_dot(name) ==
    IF \E i \in 1..Len(name) : name[i] = "."
    THEN CHOOSE i \in 1..Len(name) :
            name[i] = "." /\ \A j \in 1..(i - 1) : name[j] # "."
    ELSE 0

\* gxp::parameter_name_raw, gxp::parameter_struct_name, gxp::parameter_name:
\* the dotted-name convention of the program format.
parameter_name_raw(parameter) == parameter.name

parameter_struct_name(parameter) ==
    LET d == find_dot(parameter.name)
    IN  IF d = 0 THEN <<>> ELSE SubSeq(parameter.name, 1, d - 1)

parameter_name(parameter) ==
    LET d == find_dot(parameter.name)
    IN  IF d = 0 THEN parameter.name
        ELSE SubSeq(parameter.name, d + 1, Len(parameter.name))

(***************************************************************************)
(* Types made by the builder.                                              *)
(***************************************************************************)
makeType(kind, base, width, n) ==
    [kind |-> kind, base |-> base, width |-> width, n |-> n, name |-> <<>>,
     field_ids |-> <<>>, field_names |-> <<>>, block |-> FALSE]

makeFloatType(width) == makeType("float", "float", width, 1)
makeUintType(width) == makeType("uint", "uint", width, 1)
makeIntType(width) == makeType("int", "int", width, 1)
makeVectorType(component, n) == makeType("vector", component.base, component.width, n)
makeMatrixType(component, cols, rows) ==
    makeType("matrix", component.base, component.width, cols)
makeSampledImageType == makeType("sampled_image", "float", 32, 1)
makeStructType(field_ids, name) ==
    [kind |-> "struct", base |-> "none", width |-> 0, n |-> Len(field_ids),
     name |-> name, field_ids |-> field_ids, field_names |-> <<>>, block |-> FALSE]

\* gxp::parameter_type and gxp::parameter_generic_type classify a descriptor;
\* the classes are given with the descriptor.
parameter_type(parameter) == parameter.type

parameter_generic_type(parameter) == parameter.generic_type

\* Outcome of an integer division by zero while deriving a type.
DivisionByZero == makeType("division_by_zero", "none", 0, 0)

\* static spv::Id get_type_fallback(spv::Builder &b)
get_type_fallback == makeFloatType(32)

\* static spv::Id get_type_basic(spv::Builder &b, const SceGxmProgramParameter &)
get_type_basic(parameter) ==
    CASE parameter_type(parameter) = "F16" -> makeFloatType(32)
      [] parameter_type(parameter) = "F32" -> makeFloatType(32)
      [] parameter_type(parameter) = "U8"  -> makeUintType(8)
      [] parameter_type(parameter) = "U16" -> makeUintType(16)
      [] parameter_type(parameter) = "U32" -> makeUintType(32)
      [] parameter_type(parameter) = "S8"  -> makeIntType(8)
      [] parameter_type(parameter) = "S16" -> makeIntType(16)
      [] parameter_type(parameter) = "S32" -> makeIntType(32)
      [] OTHER -> get_type_fallback

\* create_array_if_needed is disabled: it returns param_id at once.
create_array_if_needed(param_id, parameter, explicit_array_size) == param_id

get_type_scalar(parameter) ==
    create_array_if_needed(get_type_basic(parameter), parameter, 0)

get_type_vector(parameter) ==
    makeVectorType(get_type_basic(parameter), parameter.component_count)

\* static spv::Id get_type_matrix(...): total_type_size / matrix_size and
\* total_type_size % matrix_size divide by component_count squared.
get_type_matrix(parameter) ==
    LET total_type_size == parameter.component_count * parameter.array_size
        matrix_size == parameter.component_count * parameter.component_count
    IN  IF matrix_size = 0 THEN DivisionByZero
        ELSE IF total_type_size % matrix_size = 0
             THEN create_array_if_needed(
                      makeMatrixType(get_type_basic(parameter),
                                     parameter.component_count,
                                     parameter.component_count),
                      parameter, total_type_size \div matrix_size)
             ELSE get_type_vector(parameter)

\* static spv::Id get_param_type(spv::Builder &b, const SceGxmProgramParameter &)
get_param_type(parameter) ==
    CASE parameter_generic_type(parameter) = "Scalar" -> get_type_scalar(parameter)
      [] parameter_generic_type(parameter) = "Vector" -> get_type_vector(parameter)
      [] parameter_generic_type(parameter) = "Matrix" -> get_type_matrix(parameter)
      [] OTHER -> get_type_fallback

\* What a call of get_param_type can come to.  The division by zero of
\* get_type_matrix is undefined: the build traps (DivisionByZero), or goes on
\* with a remainder that is zero (the matrix branch) or is not (the vector
\* branch).
param_type_outcomes(parameter) ==
    IF get_param_type(parameter) = DivisionByZero
    THEN {DivisionByZero,
          create_array_if_needed(
              makeMatrixType(get_type_basic(parameter), parameter.component_count,
                             parameter.component_count),
              parameter, 0),
          get_type_vector(parameter)}
    ELSE {get_param_type(parameter)}

(***************************************************************************)
(* Variables.  An allocator state st holds the builder b, the banks        *)
(* parameters, the struct context param_struct and ret, the value the last *)
(* call returned.                                                          *)
(***************************************************************************)
\* spv::StorageClass reg_type_to_spv_storage_class(USSE::RegisterBank reg_type)
reg_type_to_spv_storage_class(reg_type) ==
    CASE reg_type = "TEMP"       -> "Function"
      [] reg_type = "PRIMATTR"   -> "Input"
      [] reg_type = "OUTPUT"     -> "Output"
      [] reg_type = "SECATTR"    -> "UniformConstant"
      [] reg_type = "FPINTERNAL" -> "Private"
      [] OTHER -> "Max"

\* spv::Builder b(SPV_VERSION, 0x1337 << 12, &spv_logger), as far as used here
NewBuilder == [vars |-> <<>>, decorations |-> {}, functions |-> <<>>,
               entry_points |-> <<>>, execution_modes |-> {}]

\* SpirvShaderParameters spv_params = {}
NewParameters == [ins |-> EmptyBank, uniforms |-> EmptyBank, temps |-> EmptyBank,
                  internals |-> EmptyBank, outs |-> EmptyBank, structs |-> EmptyBank]

\* b.createVariable(storage_class, type, name)
createVariable(bld, storage_class, type, name) ==
    [bld EXCEPT !.vars = Append(@, [name |-> name, storage_class |-> storage_class,
                                    type |-> type])]

\* b.addDecoration(id, decoration, value)
addDecoration(bld, id, decoration, value) ==
    [bld EXCEPT !.decorations = @ \cup {<<id, decoration, value>>}]

\* static spv::Id create_variable(b, parameters, name, reg_type, size, type)
create_variable(st, name, reg_type, sz, type) ==
    LET b1 == createVariable(st.b, reg_type_to_spv_storage_class(reg_type), type,
                             sanitize_variable_name(name))
        var_id == Len(b1.vars)
        var == [type_id |-> type, var_id |-> var_id]
        s1 == [st EXCEPT !.b = b1, !.ret = var_id]
    IN  CASE reg_type = "SECATTR" ->
                [s1 EXCEPT !.parameters.uniforms = push(@, var, sz)]
          [] reg_type = "PRIMATTR" ->
                [s1 EXCEPT !.parameters.ins = push(@, var, sz)]
          [] reg_type = "OUTPUT" ->
                [s1 EXCEPT !.parameters.outs = push(@, var, sz)]
          [] reg_type = "TEMP" ->
                [s1 EXCEPT !.parameters.temps = push(@, var, sz)]
          [] reg_type = "FPINTERNAL" ->
                [s1 EXCEPT !.parameters.internals = push(@, var, sz)]
          [] OTHER -> [s1 EXCEPT !.ret = NoResult]

\* StructDeclContext{} and StructDeclContext::empty()
EmptyStruct == [name |-> <<>>, reg_type |-> "INVALID", field_ids |-> <<>>,
                field_names |-> <<>>, is_interaface_block |-> FALSE]

empty(ctx) == ctx.name = <<>>

\* The struct type create_struct makes: makeStructType, the Block decoration
\* of an interface block, one addMemberName per field.
struct_type(ctx) ==
    [makeStructType(ctx.field_ids, ctx.name) EXCEPT
        !.field_names = ctx.field_names,
        !.block = ctx.is_interaface_block]

create_struct_keep_context(st) ==
    create_variable(st, st.param_struct.name, st.param_struct.reg_type, 1,
                    struct_type(st.param_struct))

\* static spv::Id create_struct(b, parameters, param_struct, program_type)
create_struct(st) ==
    [create_variable(st, st.param_struct.name, st.param_struct.reg_type, 1,
                     struct_type(st.param_struct))
        EXCEPT !.param_struct = EmptyStruct]

create_param_sampler_declared_size(st, parameter) ==
    create_variable(st, parameter_name_raw(parameter), "SECATTR",
                    parameter.component_count * parameter.array_size,
                    makeSampledImageType)

\* static spv::Id create_param_sampler(b, parameters, parameter)
create_param_sampler(st, parameter) ==
    create_variable(st, parameter_name_raw(parameter), "SECATTR", 2,
                    makeSampledImageType)

(***************************************************************************)
(* create_parameters: the scan of one parameter descriptor.                *)
(***************************************************************************)
param_reg_type_of_primary_only(parameter) == "PRIMATTR"

\* switch (parameter.category): UNIFORM sets SECATTR and falls through.
param_reg_type_of(parameter) ==
    IF parameter.category = "UNIFORM" THEN "SECATTR" ELSE "PRIMATTR"

\* const bool struct_decl_ended
struct_decl_ended(ctx, struct_name) ==
    LET is_struct_field == struct_name # <<>>
    IN  \/ ~is_struct_field /\ ~empty(ctx)
        \/ is_struct_field /\ ~empty(ctx) /\ ctx.name # struct_name

can_be_interface_block_any_stage(param_reg_type, ptype) ==
    LET is_vertex_output == param_reg_type = "PRIMATTR" /\ ptype = "Vertex"
        is_fragment_input == param_reg_type = "PRIMATTR" /\ ptype = "Fragment"
    IN  is_vertex_output \/ is_fragment_input

\* const bool can_be_interface_block = is_vertex_output || is_fragment_input
can_be_interface_block(param_reg_type, ptype) ==
    LET is_vertex_output == param_reg_type = "OUTPUT" /\ ptype = "Vertex"
        is_fragment_input == param_reg_type = "PRIMATTR" /\ ptype = "Fragment"
    IN  is_vertex_output \/ is_fragment_input

\* const bool can_be_struct = can_be_interface_block; // || is_uniform
can_be_struct(param_reg_type, ptype) == can_be_interface_block(param_reg_type, ptype)

accumulate_field_in_front(st, parameter, param_type, param_reg_type, ptype) ==
    [st EXCEPT !.param_struct =
        [name |-> parameter_struct_name(parameter),
         field_ids |-> <<param_type>> \o @.field_ids,
         field_names |-> <<parameter_name(parameter)>> \o @.field_names,
         reg_type |-> param_reg_type,
         is_interaface_block |-> can_be_interface_block(param_reg_type, ptype)]]

\* The branch that accumulates a field into the struct context.
accumulate_field(st, parameter, param_type, param_reg_type, ptype) ==
    [st EXCEPT !.param_struct =
        [name |-> parameter_struct_name(parameter),
         field_ids |-> Append(@.field_ids, param_type),
         field_names |-> Append(@.field_names, parameter_name(parameter)),
         reg_type |-> param_reg_type,
         is_interaface_block |-> can_be_interface_block(param_reg_type, ptype)]]

\* std::string var_name of a stand-alone parameter.
var_name_of(parameter, param_reg_type) ==
    IF param_reg_type = "SECATTR"
    THEN parameter_name(parameter)
    ELSE IF parameter_struct_name(parameter) # <<>>
         THEN replace_dots(parameter_name_raw(parameter))
         ELSE parameter_name_raw(parameter)

var_elem_name_always_indexed(var_name, array_size, p) ==
    format_elem_name(var_name, p)

\* std::string var_elem_name of element p.
var_elem_name(var_name, array_size, p) ==
    IF array_size = 1 THEN var_name ELSE format_elem_name(var_name, p)

\* for (auto p = 0; p < parameter.array_size; ++p) create_variable(...)
create_elements(st, var_name, parameter, param_reg_type, param_type) ==
    LET F[p \in 0..parameter.array_size] ==
            IF p = 0 THEN st
            ELSE create_variable(F[p - 1],
                                 var_elem_name(var_name, parameter.array_size, p - 1),
                                 param_reg_type, parameter.component_count, param_type)
    IN  F[parameter.array_size]

\* case SCE_GXM_PARAMETER_CATEGORY_UNIFORM / _ATTRIBUTE, up to get_param_type:
\* an ended struct declaration is emitted first.
close_ended_struct(st, parameter) ==
    IF struct_decl_ended(st.param_struct, parameter_struct_name(parameter))
    THEN create_struct(st)
    ELSE st

\* case SCE_GXM_PARAMETER_CATEGORY_UNIFORM / _ATTRIBUTE, from get_param_type on.
allocate_parameter(st, parameter, ptype, param_type) ==
    LET param_reg_type == param_reg_type_of(parameter)
        is_struct_field == parameter_struct_name(parameter) # <<>>
    IN  IF is_struct_field /\ can_be_struct(param_reg_type, ptype)
        THEN accumulate_field(st, parameter, param_type, param_reg_type, ptype)
        ELSE create_elements(st, var_name_of(parameter, param_reg_type), parameter,
                             param_reg_type, param_type)

\* The body of the loop over the descriptors, for one descriptor.
scan_parameter(st, parameter, ptype, param_type) ==
    CASE parameter.category \in {"UNIFORM", "ATTRIBUTE"} ->
            allocate_parameter(close_ended_struct(st, parameter), parameter, ptype,
                               param_type)
      [] parameter.category = "SAMPLER" -> create_param_sampler(st, parameter)
      [] parameter.category = "AUXILIARY_SURFACE" -> st
      [] parameter.category = "UNIFORM_BUFFER" -> st
      [] OTHER -> st

\* assert(parameter.component_count == 0) of the two unsupported categories
\* fails: the process aborts when assertions are compiled in.
assertion_fails(parameter) ==
    /\ parameter.category \in {"AUXILIARY_SURFACE", "UNIFORM_BUFFER"}
    /\ parameter.component_count # 0

\* get_type_matrix divided by zero and the build trapped.
division_faults(parameter, param_type) ==
    /\ parameter.category \in {"UNIFORM", "ATTRIBUTE"}
    /\ param_type = DivisionByZero

(***************************************************************************)
(* Stage variables.                                                        *)
(***************************************************************************)
\* static const VertexProgramOutputPropertiesMap vertex_properties_map, in
\* the order of the output bits.
vertex_properties_map ==
    << [semantic |-> "POSITION", name |-> <<"out", "_", "Position">>, component_count |-> 4],
       [semantic |-> "FOG", name |-> <<"out", "_", "Fog">>, component_count |-> 4],
       [semantic |-> "COLOR0", name |-> <<"out", "_", "Color0">>, component_count |-> 4],
       [semantic |-> "COLOR1", name |-> <<"out", "_", "Color1">>, component_count |-> 4],
       [semantic |-> "TEXCOORD0", name |-> <<"out", "_", "TexCoord0">>, component_count |-> 2],
       [semantic |-> "TEXCOORD1", name |-> <<"out", "_", "TexCoord1">>, component_count |-> 2],
       [semantic |-> "TEXCOORD2", name |-> <<"out", "_", "TexCoord2">>, component_count |-> 2],
       [semantic |-> "TEXCOORD3", name |-> <<"out", "_", "TexCoord3">>, component_count |-> 2],
       [semantic |-> "TEXCOORD4", name |-> <<"out", "_", "TexCoord4">>, component_count |-> 2],
       [semantic |-> "TEXCOORD5", name |-> <<"out", "_", "TexCoord5">>, component_count |-> 2],
       [semantic |-> "TEXCOORD6", name |-> <<"out", "_", "TexCoord6">>, component_count |-> 2],
       [semantic |-> "TEXCOORD7", name |-> <<"out", "_", "TexCoord7">>, component_count |-> 2],
       [semantic |-> "TEXCOORD8", name |-> <<"out", "_", "TexCoord8">>, component_count |-> 2],
       [semantic |-> "TEXCOORD9", name |-> <<"out", "_", "TexCoord9">>, component_count |-> 2],
       [semantic |-> "PSIZE", name |-> <<"out", "_", "Psize">>, component_count |-> 1],
       [semantic |-> "CLIP0", name |-> <<"out", "_", "Clip0">>, component_count |-> 4],
       [semantic |-> "CLIP1", name |-> <<"out", "_", "Clip1">>, component_count |-> 4],
       [semantic |-> "CLIP2", name |-> <<"out", "_", "Clip2">>, component_count |-> 4],
       [semantic |-> "CLIP3", name |-> <<"out", "_", "Clip3">>, component_count |-> 4],
       [semantic |-> "CLIP4", name |-> <<"out", "_", "Clip4">>, component_count |-> 4],
       [semantic |-> "CLIP5", name |-> <<"out", "_", "Clip5">>, component_count |-> 4],
       [semantic |-> "CLIP6", name |-> <<"out", "_", "Clip6">>, component_count |-> 4],
       [semantic |-> "CLIP7", name |-> <<"out", "_", "Clip7">>, component_count |-> 4] >>

\* static const FragmentProgramInputPropertiesMap vertex_properties_map (of
\* create_fragment_inputs), in the order of the input bits.
fragment_properties_map ==
    << [semantic |-> "POSITION", name |-> <<"in", "_", "Position">>, component_count |-> 4],
       [semantic |-> "FOG", name |-> <<"in", "_", "Fog">>, component_count |-> 4],
       [semantic |-> "COLOR0", name |-> <<"in", "_", "Color0">>, component_count |-> 4],
       [semantic |-> "COLOR1", name |-> <<"in", "_", "Color1">>, component_count |-> 4],
       [semantic |-> "TEXCOORD0", name |-> <<"in", "_", "TexCoord0">>, component_count |-> 2],
       [semantic |-> "TEXCOORD1", name |-> <<"in", "_", "TexCoord1">>, component_count |-> 2],
       [semantic |-> "TEXCOORD2", name |-> <<"in", "_", "TexCoord2">>, component_count |-> 2],
       [semantic |-> "TEXCOORD3", name |-> <<"in", "_", "TexCoord3">>, component_count |-> 2],
       [semantic |-> "TEXCOORD4", name |-> <<"in", "_", "TexCoord4">>, component_count |-> 2],
       [semantic |-> "TEXCOORD5", name |-> <<"in", "_", "TexCoord5">>, component_count |-> 2],
       [semantic |-> "TEXCOORD6", name |-> <<"in", "_", "TexCoord6">>, component_count |-> 2],
       [semantic |-> "TEXCOORD7", name |-> <<"in", "_", "TexCoord7">>, component_count |-> 2],
       [semantic |-> "TEXCOORD8", name |-> <<"in", "_", "TexCoord8">>, component_count |-> 2],
       [semantic |-> "TEXCOORD9", name |-> <<"in", "_", "TexCoord9">>, component_count |-> 2],
       [semantic |-> "SPRITECOORD", name |-> <<"in", "_", "SpriteCoord">>, component_count |-> 2] >>

\* static void create_vertex_outputs(b, parameters, program): one OUTPUT
\* variable per set bit, lowest bit first; Position is the built-in.
create_vertex_outputs(st, outputs) ==
    LET F[k \in 0..Len(vertex_properties_map)] ==
            IF k = 0 THEN st
            ELSE LET properties == vertex_properties_map[k]
                 IN  IF properties.semantic \in outputs
                     THEN LET s1 == create_variable(F[k - 1], properties.name, "OUTPUT",
                                        properties.component_count,
                                        makeVectorType(makeFloatType(32),
                                                       properties.component_count))
                          IN  IF properties.semantic = "POSITION"
                              THEN [s1 EXCEPT !.b = addDecoration(@, s1.ret,
                                                        "BuiltIn", "Position")]
                              ELSE s1
                     ELSE F[k - 1]
    IN  F[Len(vertex_properties_map)]

\* static void create_fragment_inputs(b, parameters, program)
create_fragment_inputs(st, inputs) ==
    LET F[k \in 0..Len(fragment_properties_map)] ==
            IF k = 0 THEN st
            ELSE LET properties == fragment_properties_map[k]
                 IN  IF properties.semantic \in inputs
                     THEN create_variable(F[k - 1], properties.name, "PRIMATTR",
                              properties.component_count,
                              makeVectorType(makeFloatType(32),
                                             properties.component_count))
                     ELSE F[k - 1]
    IN  F[Len(fragment_properties_map)]

\* static void create_fragment_output(b, parameters, program): create_variable
\* pushes the colour output on outs, and parameters.outs.push pushes it again.
create_fragment_output(st) ==
    LET frag_color_type == makeVectorType(makeFloatType(32), 4)
        s1 == create_variable(st, <<"out", "_", "color">>, "OUTPUT", 4, frag_color_type)
        frag_color_var == s1.ret
        s2 == [s1 EXCEPT !.b = addDecoration(@, frag_color_var, "Location", 0)]
    IN  [s2 EXCEPT !.parameters.outs =
            push(@, [type_id |-> frag_color_type, var_id |-> frag_color_var], 4)]

create_temps_inclusive(st, count) ==
    LET F[i \in 0..(count + 1)] ==
            IF i = 0 THEN st
            ELSE create_variable(F[i - 1], format_reg_name("r", i - 1), "TEMP", 4,
                                 makeVectorType(makeFloatType(32), 4))
    IN  F[count + 1]

\* // Create temp reg vars
create_temps(st, count) ==
    LET F[i \in 0..count] ==
            IF i = 0 THEN st
            ELSE create_variable(F[i - 1], format_reg_name("r", i - 1), "TEMP", 4,
                                 makeVectorType(makeFloatType(32), 4))
    IN  F[count]

\* // Create internal reg vars
InternalRegCount == 3
InternalRegSize == 16

create_internals(st) ==
    LET F[i \in 0..InternalRegCount] ==
            IF i = 0 THEN st
            ELSE create_variable(F[i - 1], format_reg_name("i", i - 1), "FPINTERNAL",
                                 InternalRegSize, makeVectorType(makeFloatType(32), 4))
    IN  F[InternalRegCount]

(***************************************************************************)
(* size_t arithmetic of the padding step.  A size_t is four 16-bit limbs,  *)
(* least significant first.                                                *)
(***************************************************************************)
LimbBase == 65536

to_size_t(n) == <<n % LimbBase, (n \div LimbBase) % LimbBase, 0, 0>>

size_t_minus_magnitude(x, y) ==
    LET d == (x[1] + LimbBase * x[2]) - (y[1] + LimbBase * y[2])
    IN  to_size_t(IF d < 0 THEN 0 - d ELSE d)

\* x - y modulo 2^64
size_t_minus(x, y) ==
    LET Borrow[k \in 0..4] ==
            IF k = 0 THEN 0
            ELSE IF x[k] - y[k] - Borrow[k - 1] < 0 THEN 1 ELSE 0
    IN  [k \in 1..4 |-> (x[k] - y[k] - Borrow[k - 1] + LimbBase) % LimbBase]

\* x > n for a size_t x and a small constant n
size_t_greater(x, n) == x[4] # 0 \/ x[3] # 0 \/ x[2] # 0 \/ x[1] > n

\* const auto missing_primary_attrs = program.primary_reg_count - spv_params.ins.size()
missing_primary_attrs(prim_reg_count, ins) ==
    size_t_minus(to_size_t(prim_reg_count), to_size_t(size(ins)))

create_padding_up_to_three(st, ptype, is_native_color, prim_reg_count) ==
    IF ptype = "Fragment" /\ ~is_native_color
    THEN LET missing == missing_primary_attrs(prim_reg_count, st.parameters.ins)
         IN  IF size_t_greater(missing, 3) THEN st
             ELSE IF size_t_greater(missing, 0)
                  THEN create_variable(st, <<"pa0", "_", "blend">>, "PRIMATTR",
                                       missing[1] * 2,
                                       makeVectorType(makeFloatType(32), missing[1] * 2))
                  ELSE st
    ELSE st

\* The dummy primary attribute of a non-native colour fragment shader.
create_padding(st, ptype, is_native_color, prim_reg_count) ==
    IF ptype = "Fragment" /\ ~is_native_color
    THEN LET missing == missing_primary_attrs(prim_reg_count, st.parameters.ins)
         IN  IF size_t_greater(missing, 2) THEN st
             ELSE IF size_t_greater(missing, 0)
                  THEN create_variable(st, <<"pa0", "_", "blend">>, "PRIMATTR",
                                       missing[1] * 2,
                                       makeVectorType(makeFloatType(32), missing[1] * 2))
                  ELSE st
    ELSE st

(***************************************************************************)
(* The stand-alone bank: any sequence of pushes, any lookup.               *)
(***************************************************************************)
\* A SceGxmProgramParameter, by the fields the recompiler reads.
Param(category, name, component_count, array_size, generic_type, type) ==
    [category |-> category, name |-> name, component_count |-> component_count,
     array_size |-> array_size, generic_type |-> generic_type, type |-> type]

NoDerivation == [called |-> FALSE,
                 parameter |-> Param("ATTRIBUTE", <<>>, 0, 0, "Other", "F32"),
                 type_id |-> NoType]

NoSwizzle == [op |-> "none", sw3 |-> SWIZZLE_CHANNEL_3_UNDEFINED,
              sw4 |-> SWIZZLE_CHANNEL_4_UNDEFINED, sw_len |-> 4, res |-> TRUE]

NoQuery == [index |-> 0, asked |-> FALSE, nvars |-> 0, found |-> FALSE,
            out_reg |-> NoReg, out_comp_offset |-> 0]

Idle ==
    /\ pc = "idle"
    /\ assertions = FALSE
    /\ program_type = "Vertex"
    /\ params = <<>>
    /\ fragment_inputs = {}
    /\ vertex_outputs = {}
    /\ temp_reg_count1 = 0
    /\ native_color = FALSE
    /\ primary_reg_count = 0
    /\ invalid_opcode = FALSE
    /\ b = NewBuilder
    /\ spv_params = NewParameters
    /\ param_struct = EmptyStruct
    /\ spirv = <<>>
    /\ glsl = <<>>

BankInit ==
    /\ Idle
    /\ bank = EmptyBank
    /\ query = NoQuery
    /\ swizzle = NoSwizzle
    /\ derived = NoDerivation
    /\ threads = <<>>
    /\ statics = {}

BankPush(sz) ==
    /\ Len(bank.vars) < MaxPushes
    /\ bank' = push(bank, [type_id |-> NoType, var_id |-> Len(bank.vars) + 1], sz)
    /\ UNCHANGED <<query, program_vars, recompiler_vars, swizzle_vars, type_vars, thread_vars>>

BankFind(index) ==
    /\ LET r == find_reg_at(bank, index, query.out_reg, query.out_comp_offset)
       IN  query' = [index |-> index, asked |-> TRUE, nvars |-> Len(bank.vars),
                     found |-> r.found,
                     out_reg |-> r.out_reg, out_comp_offset |-> r.out_comp_offset]
    /\ UNCHANGED <<bank, program_vars, recompiler_vars, swizzle_vars, type_vars, thread_vars>>

BankNext ==
    \/ \E sz \in 0..MaxPushSize : BankPush(sz)
    \/ \E index \in 0..MaxIndex : BankFind(index)

SpecBank == BankInit /\ [][BankNext]_vars

(***************************************************************************)
(* The swizzle helpers: one call, on any swizzle and any length.           *)
(***************************************************************************)
SwizzleInit == BankInit

ToSwizzle4 ==
    /\ swizzle.op = "none"
    /\ \E sw \in Swizzle3 :
          swizzle' = [op |-> "to_swizzle4", sw3 |-> sw, sw4 |-> to_swizzle4(sw),
                      sw_len |-> 4, res |-> TRUE]
    /\ UNCHANGED <<program_vars, recompiler_vars, bank_vars, type_vars, thread_vars>>

IsDefault ==
    /\ swizzle.op = "none"
    /\ \E sw \in Swizzle4, sw_len \in 0..MaxSwLen :
          swizzle' = [op |-> "is_default", sw3 |-> SWIZZLE_CHANNEL_3_UNDEFINED,
                      sw4 |-> sw, sw_len |-> sw_len, res |-> is_default(sw, sw_len)]
    /\ UNCHANGED <<program_vars, recompiler_vars, bank_vars, type_vars, thread_vars>>

SwizzleNext ==
    \/ ToSwizzle4
    \/ IsDefault

SpecSwizzle == SwizzleInit /\ [][SwizzleNext]_vars

(***************************************************************************)
(* get_param_type called on one descriptor of any class, element type,     *)
(* component_count and array_size.                                         *)
(***************************************************************************)
GenericParameterType == {"Scalar", "Vector", "Matrix", "Other"}

SceGxmParameterType == {"F16", "F32", "U8", "U16", "U32", "S8", "S16", "S32", "C10",
                        "AGGREGATE"}

TypeInit == BankInit

GetParamType ==
    /\ ~derived.called
    /\ \E generic_type \in GenericParameterType, type \in SceGxmParameterType,
          component_count \in 0..MaxComponentCount, array_size \in 0..MaxArraySize :
          LET parameter == Param("UNIFORM", <<"p">>, component_count, array_size,
                                 generic_type, type)
          IN  \E param_type \in param_type_outcomes(parameter) :
                 derived' = [called |-> TRUE, parameter |-> parameter,
                             type_id |-> param_type]
    /\ UNCHANGED <<program_vars, recompiler_vars, bank_vars, swizzle_vars, thread_vars>>

TypeNext == GetParamType

SpecType == TypeInit /\ [][TypeNext]_vars

(***************************************************************************)
(* C1: find_reg_at on a bank built by pushes returns true with the record  *)
(* whose range [offset, offset+size) contains the index and the component  *)
(* offset index - record.offset, and false exactly when no record's range  *)
(* contains the index.  Stated for the lookup just made (query) and,       *)
(* through the operator, for every index of the bound.                     *)
(***************************************************************************)
Contains(reg, index) == reg.offset <= index /\ index < reg.offset + reg.size

\* regs: the records the bank held at the call; r: what the call returned.
LookupCorrect(regs, index, r) ==
    /\ r.found <=> \E i \in 1..Len(regs) : Contains(regs[i], index)
    /\ r.found =>
          /\ \E i \in 1..Len(regs) : regs[i] = r.out_reg
          /\ Contains(r.out_reg, index)
          /\ r.out_comp_offset = index - r.out_reg.offset
          /\ \A i \in 1..Len(regs) :
                Contains(regs[i], index) => regs[i] = r.out_reg

C1_FindRegAt ==
    /\ query.asked =>
          LookupCorrect(SubSeq(bank.vars, 1, query.nvars), query.index, query)
    /\ \A index \in 0..MaxIndex :
          LookupCorrect(bank.vars, index, find_reg_at(bank, index, NoReg, 0))

\* The example of the specification: sizes [4,2,1], index 5 found in the
\* second record (offset 4, size 2) at component offset 1.
C1_Witness ==
    /\ Len(bank.vars) = 3
    /\ bank.vars[1].size = 4 /\ bank.vars[2].size = 2 /\ bank.vars[3].size = 1
    /\ query.asked /\ query.nvars = 3 /\ query.index = 5 /\ query.found
    /\ query.out_reg.offset = 4 /\ query.out_reg.size = 2
    /\ query.out_comp_offset = 1
    /\ ~find_reg_at(bank, 7, NoReg, 0).found

(***************************************************************************)
(* The recompilation of one program.  The program descriptor is read-only  *)
(* input; each of its fields is drawn when the code first reads it.        *)
(***************************************************************************)
LightColor == Param("ATTRIBUTE", <<"Light", ".", "color">>, 4, 1, "Vector", "F32")
LightIntensity == Param("ATTRIBUTE", <<"Light", ".", "intensity">>, 1, 1, "Scalar", "F32")
FogDensity == Param("ATTRIBUTE", <<"Fog", ".", "density">>, 2, 2, "Vector", "F32")
WeightArray == Param("ATTRIBUTE", <<"w", "_">>, 3, 2, "Vector", "F16")
PosArray == Param("ATTRIBUTE", <<"pos">>, 2, 3, "Vector", "U8")
ModelView == Param("UNIFORM", <<"m", "_", "_", "v">>, 4, 1, "Matrix", "F32")
LightColorUniform == Param("UNIFORM", <<"Light", ".", "color">>, 2, 2, "Matrix", "F32")
Tex == Param("SAMPLER", <<"tex">>, 0, 1, "Other", "F32")
TexArray == Param("SAMPLER", <<"tex2">>, 4, 3, "Other", "F32")
Aux == Param("AUXILIARY_SURFACE", <<"aux">>, 0, 1, "Other", "F32")
AuxSized == Param("AUXILIARY_SURFACE", <<"aux1">>, 1, 1, "Other", "F32")
UniformBuffer == Param("UNIFORM_BUFFER", <<"ub">>, 0, 1, "Other", "F32")
UniformBufferSized == Param("UNIFORM_BUFFER", <<"ub2">>, 2, 1, "Other", "F32")
UnknownCategory == Param("UNKNOWN", <<"x">>, 1, 1, "Other", "F32")
ZeroMatrix == Param("UNIFORM", <<"z">>, 0, 1, "Matrix", "F32")

\* The descriptors of the scan-only exploration.
ScanParams == {LightColor, LightIntensity, FogDensity, WeightArray, PosArray,
               ModelView, LightColorUniform, Tex, TexArray, Aux, AuxSized,
               UniformBuffer, UniformBufferSized, UnknownCategory, ZeroMatrix}

\* The descriptors of the whole-recompilation exploration.
ProgramParams == {LightColor, PosArray, ModelView, Tex}

ProgramTypes == {"Vertex", "Fragment"}

VertexOutputChoices == {{}, {"POSITION", "TEXCOORD0", "PSIZE"}}
FragmentInputChoices == {{}, {"COLOR0", "TEXCOORD0"}}

St == [b |-> b, parameters |-> spv_params, param_struct |-> param_struct,
       ret |-> NoResult]

Install(st) ==
    /\ b' = st.b
    /\ spv_params' = st.parameters
    /\ param_struct' = st.param_struct

Init ==
    /\ pc = "scan"
    /\ assertions \in BOOLEAN
    /\ program_type \in ProgramTypes
    /\ params = <<>>
    /\ fragment_inputs = {}
    /\ vertex_outputs = {}
    /\ temp_reg_count1 = 0
    /\ native_color = FALSE
    /\ primary_reg_count = 0
    /\ invalid_opcode = FALSE
    /\ b = NewBuilder
    /\ spv_params = NewParameters
    /\ param_struct = EmptyStruct
    /\ spirv = <<>>
    /\ glsl = <<>>
    /\ bank = EmptyBank
    /\ query = NoQuery
    /\ swizzle = NoSwizzle
    /\ derived = NoDerivation
    /\ threads = <<>>
    /\ statics = {}

\* One turn of for (size_t i = 0; i < program.parameter_count; ++i).
ScanParameter(parameter) ==
    /\ pc = "scan"
    /\ Len(params) < MaxParams
    /\ params' = Append(params, parameter)
    /\ \E param_type \in param_type_outcomes(parameter) :
          IF assertions /\ assertion_fails(parameter)
          THEN pc' = "aborted" /\ UNCHANGED <<b, spv_params, param_struct>>
          ELSE IF division_faults(parameter, param_type)
               THEN pc' = "fault" /\ Install(close_ended_struct(St, parameter))
               ELSE pc' = "scan"
                    /\ Install(scan_parameter(St, parameter, program_type, param_type))
    /\ UNCHANGED <<assertions, program_type, fragment_inputs, vertex_outputs,
                   temp_reg_count1, native_color, primary_reg_count, invalid_opcode,
                   spirv, glsl, bank_vars, swizzle_vars, type_vars, thread_vars>>

\* The loop ends (i == program.parameter_count): a struct still open is emitted.
FlushStruct ==
    /\ pc = "scan"
    /\ pc' = "stage"
    /\ Install(IF ~empty(param_struct) THEN create_struct(St) ELSE St)
    /\ UNCHANGED <<program_vars, assertions, spirv, glsl, bank_vars, swizzle_vars, type_vars, thread_vars>>

CreateStageVariables ==
    /\ pc = "stage"
    /\ pc' = "temps"
    /\ \E outputs \in (IF program_type = "Vertex" THEN VertexOutputChoices ELSE {{}}),
          inputs \in (IF program_type = "Fragment" THEN FragmentInputChoices ELSE {{}}) :
          /\ vertex_outputs' = outputs
          /\ fragment_inputs' = inputs
          /\ Install(IF program_type = "Vertex"
                     THEN create_vertex_outputs(St, outputs)
                     ELSE IF program_type = "Fragment"
                          THEN create_fragment_output(create_fragment_inputs(St, inputs))
                          ELSE St)
    /\ UNCHANGED <<program_type, params, temp_reg_count1, native_color,
                   primary_reg_count, invalid_opcode, assertions, spirv, glsl,
                   bank_vars, swizzle_vars, type_vars, thread_vars>>

CreateTemps ==
    /\ pc = "temps"
    /\ pc' = "internals"
    /\ \E count \in 0..MaxTempRegs :
          /\ temp_reg_count1' = count
          /\ Install(create_temps(St, count))
    /\ UNCHANGED <<program_type, params, fragment_inputs, vertex_outputs, native_color,
                   primary_reg_count, invalid_opcode, assertions, spirv, glsl,
                   bank_vars, swizzle_vars, type_vars, thread_vars>>

CreateInternals ==
    /\ pc = "internals"
    /\ pc' = "padding"
    /\ Install(create_internals(St))
    /\ UNCHANGED <<program_vars, assertions, spirv, glsl, bank_vars, swizzle_vars, type_vars, thread_vars>>

\* is_native_color() is read for a fragment program only, primary_reg_count
\* only when that is false.
CreatePadding ==
    /\ pc = "padding"
    /\ pc' = "entry"
    /\ \E is_native \in (IF program_type = "Fragment" THEN BOOLEAN ELSE {FALSE}) :
       \E count \in (IF program_type = "Fragment" /\ ~is_native
                     THEN 0..MaxPrimaryRegs ELSE {0}) :
          /\ native_color' = is_native
          /\ primary_reg_count' = count
          /\ Install(create_padding(St, program_type, is_native, count))
    /\ UNCHANGED <<program_type, params, fragment_inputs, vertex_outputs,
                   temp_reg_count1, invalid_opcode, assertions, spirv, glsl,
                   bank_vars, swizzle_vars, type_vars, thread_vars>>

\* convert_gxp_to_spirv from the switch on program_type to generate_shader_body.
entry_point_name(ptype) == IF ptype = "Fragment" THEN <<"main", "_", "fs">>
                           ELSE <<"main", "_", "vs">>

execution_model(ptype) == IF ptype = "Fragment" THEN "Fragment" ELSE "Vertex"

\* usse::convert_gxp_usse_to_spirv: the translator stops at an INVALID
\* opcode; it returns nothing to its caller.
convert_gxp_usse_to_spirv(bld, has_invalid_opcode) ==
    [bld EXCEPT !.functions =
        <<[@[1] EXCEPT !.body = IF has_invalid_opcode THEN "stopped" ELSE "translated"]>>]

GenerateShaderBody ==
    /\ pc = "entry"
    /\ pc' = "finish"
    /\ \E has_invalid_opcode \in BOOLEAN :
          /\ invalid_opcode' = has_invalid_opcode
          /\ b' = convert_gxp_usse_to_spirv(
                      [b EXCEPT !.functions =
                          <<[name |-> entry_point_name(program_type), body |-> "empty"]>>],
                      has_invalid_opcode)
    /\ UNCHANGED <<program_type, params, fragment_inputs, vertex_outputs,
                   temp_reg_count1, native_color, primary_reg_count, assertions,
                   spv_params, param_struct, spirv, glsl, bank_vars, swizzle_vars, type_vars, thread_vars>>

\* for (auto id : parameters.ins.get_vars()) ... outs.get_vars() ...
interface_ids(parameters) ==
    [i \in 1..Len(parameters.ins.vars) |-> parameters.ins.vars[i].var_id]
    \o [i \in 1..Len(parameters.outs.vars) |-> parameters.outs.vars[i].var_id]

\* b.addEntryPoint(...) and the addIdOperand calls
addEntryPoint(bld, parameters, ptype) ==
    [bld EXCEPT !.entry_points =
        Append(@, [execution_model |-> execution_model(ptype),
                   name |-> entry_point_name(ptype),
                   operands |-> interface_ids(parameters)]),
                !.execution_modes =
        IF ptype = "Fragment" THEN @ \cup {"OriginLowerLeft"} ELSE @]

\* b.dump(spirv): the module is serialized whatever the translator did.
dump(bld) ==
    <<"Header", "OpCapability", "OpMemoryModel">>
    \o [i \in 1..Len(bld.entry_points) |-> "OpEntryPoint"]
    \o [i \in 1..Len(bld.vars) |-> "OpVariable"]
    \o [i \in 1..Len(bld.functions) |-> "OpFunction"]

AddEntryPoint ==
    /\ pc = "finish"
    /\ pc' = "cross"
    /\ b' = addEntryPoint(b, spv_params, program_type)
    /\ spirv' = dump(b')
    /\ UNCHANGED <<program_vars, assertions, spv_params, param_struct, glsl,
                   bank_vars, swizzle_vars, type_vars, thread_vars>>

\* static std::string convert_spirv_to_glsl(SpirvCode spirv_binary)
convert_spirv_to_glsl(spirv_binary) ==
    <<"#version 410">> \o [i \in 1..Len(spirv_binary) |-> "line"]

\* convert_gxp_to_glsl returns the source.
ConvertSpirvToGlsl ==
    /\ pc = "cross"
    /\ pc' = "done"
    /\ glsl' = convert_spirv_to_glsl(spirv)
    /\ UNCHANGED <<program_vars, assertions, b, spv_params, param_struct, spirv,
                   bank_vars, swizzle_vars, type_vars, thread_vars>>

Next ==
    \/ \E parameter \in ProgramParams : ScanParameter(parameter)
    \/ FlushStruct
    \/ CreateStageVariables
    \/ CreateTemps
    \/ CreateInternals
    \/ CreatePadding
    \/ GenerateShaderBody
    \/ AddEntryPoint
    \/ ConvertSpirvToGlsl

Spec == Init /\ [][Next]_vars

\* The scan alone, over the wider set of descriptors.
ScanNext ==
    \/ \E parameter \in ScanParams : ScanParameter(parameter)
    \/ FlushStruct

SpecScan == Init /\ [][ScanNext]_vars

(***************************************************************************)
(* Two recompilations on two threads.  Each call of convert_gxp_to_glsl    *)
(* has its own locals (the builder, the banks, the struct context, the     *)
(* outputs); the function-local static tables are constructed by the first *)
(* call that reaches them and are const afterwards.  A thread takes one    *)
(* step of its recompilation at a time, in any order with the other.       *)
(***************************************************************************)
Threads == {1, 2}

\* A SceGxmProgram, by what the recompiler reads of it.
Program(ptype, parameters, outputs, inputs, temps, is_native, prim_regs, bad_opcode) ==
    [program_type |-> ptype, params |-> parameters, vertex_outputs |-> outputs,
     fragment_inputs |-> inputs, temp_reg_count1 |-> temps,
     native_color |-> is_native, primary_reg_count |-> prim_regs,
     invalid_opcode |-> bad_opcode]

LitFragment ==
    Program("Fragment", <<LightColor, LightIntensity, Tex>>, {}, {"COLOR0", "TEXCOORD0"},
            1, FALSE, 7, FALSE)

SkinnedVertex ==
    Program("Vertex", <<PosArray, ModelView>>, {"POSITION", "TEXCOORD0", "PSIZE"}, {},
            0, FALSE, 0, FALSE)

FoggedFragment ==
    Program("Fragment", <<FogDensity, WeightArray>>, {}, {}, 0, TRUE, 0, TRUE)

ConcurrentPrograms == {LitFragment, SkinnedVertex, FoggedFragment}

\* The locals of a call that has just been entered.
Start(program) ==
    [pc |-> "scan", program |-> program, i |-> 0, steps |-> 0, b |-> NewBuilder,
     spv_params |-> NewParameters, param_struct |-> EmptyStruct,
     spirv |-> <<>>, glsl |-> <<>>]

\* The allocator state of a thread's locals, and the locals after a call.
StOf(th) == [b |-> th.b, parameters |-> th.spv_params,
             param_struct |-> th.param_struct, ret |-> NoResult]

Installed(th, st, next_pc) ==
    [th EXCEPT !.b = st.b, !.spv_params = st.parameters,
               !.param_struct = st.param_struct, !.pc = next_pc,
               !.steps = @ + 1]

\* One step of a recompilation on its locals: the steps of Next, with the
\* program's fields read from th.program.
thread_step(th) ==
    LET program == th.program
        st == StOf(th)
    IN  CASE th.pc = "scan" /\ th.i < Len(program.params) ->
                LET parameter == program.params[th.i + 1]
                IN  [Installed(th, scan_parameter(st, parameter, program.program_type,
                                                  get_param_type(parameter)), "scan")
                        EXCEPT !.i = @ + 1]
          [] th.pc = "scan" /\ th.i = Len(program.params) ->
                Installed(th, IF ~empty(th.param_struct) THEN create_struct(st) ELSE st,
                          "stage")
          [] th.pc = "stage" ->
                Installed(th,
                          IF program.program_type = "Vertex"
                          THEN create_vertex_outputs(st, program.vertex_outputs)
                          ELSE create_fragment_output(
                                   create_fragment_inputs(st, program.fragment_inputs)),
                          "temps")
          [] th.pc = "temps" ->
                Installed(th, create_temps(st, program.temp_reg_count1), "internals")
          [] th.pc = "internals" ->
                Installed(th, create_internals(st), "padding")
          [] th.pc = "padding" ->
                Installed(th, create_padding(st, program.program_type,
                                             program.native_color,
                                             program.primary_reg_count), "entry")
          [] th.pc = "entry" ->
                [th EXCEPT !.pc = "finish", !.steps = @ + 1,
                           !.b = convert_gxp_usse_to_spirv(
                                     [th.b EXCEPT !.functions =
                                         <<[name |-> entry_point_name(program.program_type),
                                            body |-> "empty"]>>],
                                     program.invalid_opcode)]
          [] th.pc = "finish" ->
                LET b1 == addEntryPoint(th.b, th.spv_params, program.program_type)
                IN  [th EXCEPT !.pc = "cross", !.steps = @ + 1, !.b = b1,
                               !.spirv = dump(b1)]
          [] th.pc = "cross" ->
                [th EXCEPT !.pc = "done", !.steps = @ + 1,
                           !.glsl = convert_spirv_to_glsl(th.spirv)]
          [] OTHER -> th

\* The static table a step constructs on its first execution.
static_of(th) ==
    IF th.pc # "stage" THEN {}
    ELSE IF th.program.program_type = "Vertex"
         THEN {"create_vertex_outputs::vertex_properties_map"}
         ELSE {"create_fragment_inputs::vertex_properties_map"}

param_struct_static(ths, t) == ths[1].param_struct

\* StructDeclContext param_struct = {}: a local of the thread's own call of
\* create_parameters.
param_struct_local(ths, t) == ths[t].param_struct

\* What thread t works on: its own locals.
locals(ths, t) == [ths[t] EXCEPT !.param_struct = param_struct_local(ths, t)]

ConcurrentInit ==
    /\ Idle
    /\ bank = EmptyBank
    /\ query = NoQuery
    /\ swizzle = NoSwizzle
    /\ derived = NoDerivation
    /\ threads \in [Threads -> {Start(program) : program \in ConcurrentPrograms}]
    /\ statics = {}

Run(t) ==
    /\ threads[t].pc # "done"
    /\ threads' = [threads EXCEPT ![t] = thread_step(locals(threads, t))]
    /\ statics' = statics \cup static_of(threads[t])
    /\ UNCHANGED <<program_vars, recompiler_vars, bank_vars, swizzle_vars, type_vars>>

ConcurrentNext == \E t \in Threads : Run(t)

SpecConcurrent == ConcurrentInit /\ [][ConcurrentNext]_vars

(***************************************************************************)
(* C2: in every reachable state of every register bank, record offsets     *)
(* increase in append order, the ranges [offset, offset+size) of distinct  *)
(* records do not overlap, and the bank's size() is the sum of its record  *)
(* sizes: every record starts where the records before it end, and size()  *)
(* is where the last one ends.                                             *)
(***************************************************************************)
BankNames == {"ins", "uniforms", "temps", "internals", "outs", "structs"}

\* No index lies in both ranges.
Disjoint(r1, r2) ==
    ~\E index \in r1.offset..(r1.offset + r1.size - 1) : Contains(r2, index)

BankWellFormed(bk) ==
    /\ \A i, j \in 1..Len(bk.vars) :
          i < j => /\ bk.vars[i].offset <= bk.vars[j].offset
                   /\ Disjoint(bk.vars[i], bk.vars[j])
    /\ \A i \in 1..Len(bk.vars) :
          bk.vars[i].offset = SumSizes(SubSeq(bk.vars, 1, i - 1))
    /\ size(bk) = IF bk.vars = <<>> THEN 0
                  ELSE Last(bk.vars).offset + Last(bk.vars).size

C2_BanksWellFormed == \A name \in BankNames : BankWellFormed(spv_params[name])

\* A fragment program whose input bank holds a struct (size 1), the three
\* elements of an array parameter (size 2 each) and a stage input.
C2_Witness ==
    /\ pc = "done"
    /\ Len(spv_params.ins.vars) >= 5
    /\ spv_params.ins.vars[1].size = 1
    /\ spv_params.ins.vars[2].offset = 1 /\ spv_params.ins.vars[2].size = 2
    /\ spv_params.ins.vars[5].offset = 7
    /\ Len(spv_params.outs.vars) = 2
    /\ Len(spv_params.internals.vars) = 3

(***************************************************************************)
(* C3: for a fragment program with zero parameters, native-color = true,   *)
(* temp_reg_count1 = 0 and no active fragment-input bits, create_parameters*)
(* yields an OUTPUT bank containing exactly one variable (the 4-component  *)
(* colour output bound to location 0) and an empty PRIMARY-ATTRIBUTE bank. *)
(***************************************************************************)
MinimalFragmentProgram ==
    /\ program_type = "Fragment"
    /\ params = <<>>
    /\ fragment_inputs = {}
    /\ temp_reg_count1 = 0
    /\ native_color

C3_MinimalFragment ==
    (pc = "entry" /\ MinimalFragmentProgram) =>
        /\ Len(spv_params.outs.vars) = 1
        /\ spv_params.outs.vars[1].size = 4
        /\ spv_params.outs.vars[1].type_id = makeVectorType(makeFloatType(32), 4)
        /\ <<spv_params.outs.vars[1].var_id, "Location", 0>> \in b.decorations
        /\ spv_params.ins.vars = <<>>

(***************************************************************************)
(* C4: when the instruction stream holds an unrecognized (INVALID) opcode, *)
(* the recompilation call reports failure and returns no output: the       *)
(* SPIR-V returned by convert_gxp_to_spirv and the source returned by      *)
(* convert_gxp_to_glsl are empty.                                          *)
(***************************************************************************)
C4_InvalidOpcodeNoOutput ==
    /\ (pc \in {"cross", "done"} /\ invalid_opcode) => spirv = <<>>
    /\ (pc = "done" /\ invalid_opcode) => glsl = <<>>

(***************************************************************************)
(* C5: in a fragment program, two consecutive attribute parameters that    *)
(* share a struct prefix (and are the only attribute parameters with that  *)
(* prefix) produce exactly one struct variable in the PRIMARY-ATTRIBUTE    *)
(* bank, whose fields are those two parameters in declaration order, and   *)
(* no stand-alone variable for either field.                               *)
(***************************************************************************)
IsAttributeField(parameter, struct_name) ==
    /\ parameter.category = "ATTRIBUTE"
    /\ struct_name # <<>>
    /\ parameter_struct_name(parameter) = struct_name

StructRecords(bk, struct_name) ==
    {i \in 1..Len(bk.vars) :
        bk.vars[i].type_id.kind = "struct" /\ bk.vars[i].type_id.name = struct_name}

\* The names a stand-alone variable of the descriptor could carry.
StandaloneNames(parameter) ==
    {parameter_name_raw(parameter), replace_dots(parameter_name_raw(parameter)),
     parameter_name(parameter)}

C5_TwoFieldsOneStruct ==
    (pc = "stage" /\ program_type = "Fragment") =>
        \A i \in 1..(Len(params) - 1) :
            LET struct_name == parameter_struct_name(params[i])
                alone == \A k \in 1..Len(params) :
                            IsAttributeField(params[k], struct_name) => k \in {i, i + 1}
                found == StructRecords(spv_params.ins, struct_name)
            IN  (/\ IsAttributeField(params[i], struct_name)
                 /\ IsAttributeField(params[i + 1], struct_name)
                 /\ alone) =>
                    /\ Cardinality(found) = 1
                    /\ \A r \in found :
                          /\ spv_params.ins.vars[r].type_id.field_names =
                                <<parameter_name(params[i]), parameter_name(params[i + 1])>>
                          /\ spv_params.ins.vars[r].type_id.field_ids =
                                <<get_param_type(params[i]), get_param_type(params[i + 1])>>
                          /\ b.vars[spv_params.ins.vars[r].var_id].name =
                                sanitize_variable_name(struct_name)
                    /\ \A name \in BankNames \ {"ins"} :
                          StructRecords(spv_params[name], struct_name) = {}
                    /\ ~\E r \in 1..Len(spv_params.ins.vars) :
                          /\ spv_params.ins.vars[r].type_id.kind # "struct"
                          /\ b.vars[spv_params.ins.vars[r].var_id].name \in
                                StandaloneNames(params[i]) \cup StandaloneNames(params[i + 1])

\* "Light.color" then "Light.intensity": one struct Light with two fields.
C5_Witness ==
    /\ pc = "stage"
    /\ program_type = "Fragment"
    /\ params = <<LightColor, LightIntensity>>
    /\ Len(spv_params.ins.vars) = 1
    /\ spv_params.ins.vars[1].type_id.field_names = <<<<"color">>, <<"intensity">>>>

(***************************************************************************)
(* Steps of the scan, as seen from a pair of states.                       *)
(***************************************************************************)
\* This step scanned one more descriptor, Last(params').
Scanned == pc = "scan" /\ Len(params') = Len(params) + 1

\* ... and the loop went on to the next descriptor.
ScannedOn == Scanned /\ pc' = "scan"

\* The descriptor is a field of the struct named struct_name.
IsFieldOf(parameter, struct_name) ==
    struct_name # <<>> /\ parameter_struct_name(parameter) = struct_name

\* The variables the step added to the builder.
NewVars == SubSeq(b'.vars, Len(b.vars) + 1, Len(b'.vars))

\* The step emitted the struct that was open before it.
StructEmitted ==
    /\ ~empty(param_struct)
    /\ Len(b'.vars) > Len(b.vars)
    /\ b'.vars[Len(b.vars) + 1].type.kind = "struct"
    /\ b'.vars[Len(b.vars) + 1].type.name = param_struct.name
    /\ b'.vars[Len(b.vars) + 1].type.field_names = param_struct.field_names

(***************************************************************************)
(* C6: during the scan at most one struct context is open, and an open     *)
(* struct is closed (emitted as a struct variable) as soon as the next     *)
(* parameter, of any category, is not a field with the same struct prefix. *)
(***************************************************************************)
C6_ClosedOnMismatch ==
    [][(/\ ScannedOn
        /\ ~empty(param_struct)
        /\ ~IsFieldOf(Last(params'), param_struct.name))
       => StructEmitted]_vars

(***************************************************************************)
(* C7, as claimed: a struct-prefixed parameter whose bank is not the       *)
(* uniform bank is accumulated into the struct context in a vertex-stage   *)
(* program as it is in a fragment-stage program (the vertex stage reaches  *)
(* the accumulation path).                                                 *)
(***************************************************************************)
\* The step accumulated the scanned descriptor as the last field of the
\* struct context and made no stand-alone variable of it.
Accumulated ==
    LET parameter == Last(params')
        continues == param_struct.name = parameter_struct_name(parameter)
    IN  /\ param_struct'.name = parameter_struct_name(parameter)
        /\ param_struct'.name # <<>>
        /\ param_struct'.field_names =
              Append(IF continues THEN param_struct.field_names ELSE <<>>,
                     parameter_name(parameter))
        /\ param_struct'.field_ids =
              Append(IF continues THEN param_struct.field_ids ELSE <<>>,
                     get_param_type(parameter))
        /\ \A i \in 1..Len(NewVars) : NewVars[i].type.kind = "struct"

ArrayStep ==
    /\ ScannedOn
    /\ Last(params').category \in {"ATTRIBUTE", "UNIFORM"}
    /\ parameter_struct_name(Last(params')) = <<>>
    /\ Last(params').array_size >= 1

\* The variables the step made of the descriptor: the new variables less the
\* struct the step may have emitted first.
ElementVars == IF StructEmitted THEN Tail(NewVars) ELSE NewVars

ClaimedElementName(parameter, i) ==
    IF parameter.array_size = 1 THEN parameter_name_raw(parameter)
    ELSE parameter_name_raw(parameter) \o <<"_", ToString(i)>>

\* The last n records of the descriptor's bank are the n new variables, in
\* index order, each of component_count registers.
ElementsAppended ==
    LET parameter == Last(params')
        n == parameter.array_size
        name == IF parameter.category = "UNIFORM" THEN "uniforms" ELSE "ins"
        regs == spv_params'[name].vars
        first_id == Len(b'.vars) - n
    IN  /\ Len(ElementVars) = n
        /\ Len(regs) = Len(spv_params[name].vars) + n
                        + (IF StructEmitted /\ name = "ins" THEN 1 ELSE 0)
        /\ \A i \in 1..n :
              /\ regs[Len(regs) - n + i].var_id = first_id + i
              /\ regs[Len(regs) - n + i].size = parameter.component_count
              /\ regs[Len(regs) - n + i].type_id \in param_type_outcomes(parameter)
        /\ \A other \in BankNames \ {name, "ins"} :
              spv_params'[other] = spv_params[other]
        /\ \A i, j \in 1..n : i # j => ElementVars[i].name # ElementVars[j].name

PaddingStep == pc = "padding" /\ pc' = "entry"

NothingAppended == spv_params' = spv_params /\ b' = b

C9_Padding ==
    [][PaddingStep =>
          LET m == primary_reg_count' - SumSizes(spv_params.ins.vars)
              padded == program_type = "Fragment" /\ ~native_color'
          IN  /\ (padded /\ m \in {1, 2}) =>
                    /\ Len(b'.vars) = Len(b.vars) + 1
                    /\ Last(b'.vars).name = <<"pa0", "_", "blend">>
                    /\ Last(b'.vars).storage_class = "Input"
                    /\ spv_params'.ins.vars =
                          Append(spv_params.ins.vars,
                                 [type_id |-> makeVectorType(makeFloatType(32), 2 * m),
                                  var_id |-> Len(b'.vars),
                                  offset |-> spv_params.ins.next_offset,
                                  size |-> 2 * m])
                    /\ \A name \in BankNames \ {"ins"} :
                          spv_params'[name] = spv_params[name]
              /\ (padded /\ (m = 0 \/ m > 2)) => NothingAppended
              /\ ~padded => NothingAppended]_vars

\* One slot missing: the padding variable has 2 components.
C9_Witness ==
    /\ pc = "entry"
    /\ program_type = "Fragment"
    /\ ~native_color
    /\ spv_params.ins.vars # <<>>
    /\ Last(spv_params.ins.vars).size = 2
    /\ b.vars[Last(spv_params.ins.vars).var_id].name = <<"pa0", "_", "blend">>
    /\ primary_reg_count - (SumSizes(spv_params.ins.vars) - 2) = 1
    /\ Len(spv_params.ins.vars) > 1

(***************************************************************************)
(* C10: a parameter of category auxiliary-surface or uniform-buffer,       *)
(* whatever its component_count, adds no record to any register bank,      *)
(* never aborts the process, and the scan continues with the following     *)
(* parameters from the state it had before the parameter.                  *)
(***************************************************************************)
C10_UnsupportedSkipped ==
    [][(Scanned /\ Last(params').category \in {"AUXILIARY_SURFACE", "UNIFORM_BUFFER"})
       => /\ pc' = "scan"
          /\ UNCHANGED <<b, spv_params, param_struct>>]_vars


(***************************************************************************)
(* C11: for every 4-channel swizzle sw and every active length n in 1..4,  *)
(* is_default(sw, n) is true if and only if sw[i] is the identity channel  *)
(* (X, Y, Z, W)[i] for every i < n; the channels at positions >= n never   *)
(* influence the result.  Stated for the call just made and, through the   *)
(* operator, against every change of one channel at a position >= n.      *)
(***************************************************************************)
IdentityPrefix(sw, n) == \A i \in 1..n : sw[i] = SWIZZLE_CHANNEL_4_DEFAULT[i]

C11_IsDefault ==
    (swizzle.op = "is_default" /\ swizzle.sw_len \in 1..4) =>
        /\ swizzle.res <=> IdentityPrefix(swizzle.sw4, swizzle.sw_len)
        /\ \A i \in (swizzle.sw_len + 1)..4, channel \in SwizzleChannel :
              is_default([swizzle.sw4 EXCEPT ![i] = channel], swizzle.sw_len)
                  = swizzle.res

\* Channel 0 differs while channel 3 matches: false for n = 4; and a
\* swizzle whose channels at positions >= 2 are not the identity is still
\* default for n = 2.
C11_Witness ==
    /\ swizzle.op = "is_default"
    /\ swizzle.sw4 = <<"_Y", "_Y", "_Z", "_W">>
    /\ swizzle.sw_len = 4
    /\ ~swizzle.res
    /\ is_default(<<"_X", "_Y", "_0", "_H">>, 2)
    /\ ~is_default(<<"_X", "_Y", "_0", "_H">>, 3)

(***************************************************************************)
(* C12: for every 3-channel swizzle sw, to_swizzle4(sw) is the 4-channel   *)
(* swizzle {sw[0], sw[1], sw[2], X}: the first three channels in order and *)
(* X, neither W nor undefined, as the fourth.                              *)
(***************************************************************************)
C12_ToSwizzle4 ==
    swizzle.op = "to_swizzle4" =>
        /\ Len(swizzle.sw4) = 4
        /\ \A i \in 1..3 : swizzle.sw4[i] = swizzle.sw3[i]
        /\ swizzle.sw4[4] = "_X"

C12_Witness ==
    /\ swizzle.op = "to_swizzle4"
    /\ swizzle.sw3 = <<"_W", "_Z", "_UNDEFINED">>
    /\ swizzle.sw4 = <<"_W", "_Z", "_UNDEFINED", "_X">>


(***************************************************************************)
(* Register-bank records a step appended.                                  *)
(***************************************************************************)
\* The bank keeps the records it had and the step appended these.
Appended(name) ==
    SubSeq(spv_params'[name].vars, Len(spv_params[name].vars) + 1,
           Len(spv_params'[name].vars))

BankKept(name) ==
    /\ Len(spv_params'[name].vars) >= Len(spv_params[name].vars)
    /\ SubSeq(spv_params'[name].vars, 1, Len(spv_params[name].vars))
          = spv_params[name].vars

AppendedIds(name) == {Appended(name)[i].var_id : i \in 1..Len(Appended(name))}

(***************************************************************************)
(* C13: scanning a sampler parameter appends exactly one record to the     *)
(* uniform (SECONDARY-ATTRIBUTE) bank, of size exactly 2 whatever the      *)
(* parameter's component_count and array_size, and appends nothing to any  *)
(* other bank.                                                             *)
(***************************************************************************)
C13_SamplerSizeTwo ==
    [][(Scanned /\ Last(params').category = "SAMPLER") =>
          /\ BankKept("uniforms")
          /\ Len(Appended("uniforms")) = 1
          /\ Appended("uniforms")[1].size = 2
          /\ Appended("uniforms")[1].offset = spv_params.uniforms.next_offset
          /\ Appended("uniforms")[1].var_id = Len(b'.vars)
          /\ Appended("uniforms")[1].type_id = makeSampledImageType
          /\ Len(b'.vars) = Len(b.vars) + 1
          /\ \A other \in BankNames \ {"uniforms"} :
                spv_params'[other] = spv_params[other]]_vars

\* A sampler declared with component_count 4 and array_size 3, scanned after
\* an attribute array: one record of size 2 in the uniform bank.
C13_Witness ==
    /\ params = <<PosArray, TexArray>>
    /\ Len(spv_params.uniforms.vars) = 1
    /\ spv_params.uniforms.vars[1].size = 2
    /\ spv_params.uniforms.next_offset = 2
    /\ Len(spv_params.ins.vars) = 3

(***************************************************************************)
(* C14: once create_parameters has returned, the TEMP bank holds exactly   *)
(* temp_reg_count1 records, each of size 4, and the INTERNAL-SCRATCH bank  *)
(* exactly 3 records, each of size 16 (48 in all), whatever the stage and  *)
(* the parameter list.                                                     *)
(***************************************************************************)
Returned == pc \in {"entry", "finish", "cross", "done"}

C14_TempsAndInternals ==
    Returned =>
        /\ Len(spv_params.temps.vars) = temp_reg_count1
        /\ \A i \in 1..Len(spv_params.temps.vars) : spv_params.temps.vars[i].size = 4
        /\ size(spv_params.temps) = 4 * temp_reg_count1
        /\ Len(spv_params.internals.vars) = 3
        /\ \A i \in 1..Len(spv_params.internals.vars) :
              spv_params.internals.vars[i].size = 16
        /\ size(spv_params.internals) = 48

C14_Witness ==
    /\ pc = "entry"
    /\ program_type = "Fragment"
    /\ Len(params) = 2
    /\ temp_reg_count1 = 1
    /\ Len(spv_params.temps.vars) = 1
    /\ Len(spv_params.internals.vars) = 3
    /\ spv_params.internals.next_offset = 48

(***************************************************************************)
(* C15: every variable the scan makes of a UNIFORM parameter is appended   *)
(* to the SECONDARY-ATTRIBUTE (uniforms) bank, every variable it makes of  *)
(* an ATTRIBUTE parameter (stand-alone, or the struct of accumulated       *)
(* attribute fields) to the PRIMARY-ATTRIBUTE (ins) bank, and no step of   *)
(* the scan, the final flush included, changes the OUTPUT, TEMP or         *)
(* INTERNAL-SCRATCH bank.                                                  *)
(***************************************************************************)
\* Ids of the variables the step made of the scanned descriptor itself.
ElementIds == (Len(b'.vars) - Len(ElementVars) + 1)..Len(b'.vars)

\* Id of the struct variable the step emitted, if it emitted one.
EmittedStructIds == IF StructEmitted THEN {Len(b.vars) + 1} ELSE {}

C15_BankOfCategory ==
    [][pc = "scan" =>
          /\ spv_params'.outs = spv_params.outs
          /\ spv_params'.temps = spv_params.temps
          /\ spv_params'.internals = spv_params.internals
          /\ BankKept("ins") /\ BankKept("uniforms")
          /\ EmittedStructIds \subseteq AppendedIds("ins")
          /\ (Scanned /\ Last(params').category = "UNIFORM") =>
                /\ AppendedIds("uniforms") = ElementIds
                /\ Len(Appended("uniforms")) = Len(ElementVars)
                /\ AppendedIds("ins") = EmittedStructIds
          /\ (Scanned /\ Last(params').category = "ATTRIBUTE") =>
                /\ AppendedIds("ins") = ElementIds \cup EmittedStructIds
                /\ Len(Appended("ins")) = Len(NewVars)
                /\ Appended("uniforms") = <<>>]_vars

\* A fragment program whose list is an attribute struct field, a uniform
\* matrix and an attribute array, after the flush.
C15_Witness ==
    /\ pc = "stage"
    /\ program_type = "Fragment"
    /\ params = <<LightColor, ModelView, PosArray>>
    /\ Len(spv_params.uniforms.vars) = 1
    /\ Len(spv_params.ins.vars) = 4
    /\ spv_params.outs = EmptyBank
    /\ spv_params.temps = EmptyBank
    /\ spv_params.internals = EmptyBank


(***************************************************************************)
(* C16: for every matrix-category parameter with component_count c and     *)
(* array_size a (c = 0 and a = 0 included), type derivation completes      *)
(* without fault and yields the c-by-c matrix type exactly when c*a is     *)
(* evenly divisible by c*c, and the flat vector type of c components       *)
(* otherwise.                                                              *)
(***************************************************************************)
\* n is evenly divisible by d (0 is by 0, nothing else is).
EvenlyDivisible(n, d) == \E k \in 0..n : n = k * d

C16_MatrixType ==
    (derived.called /\ parameter_generic_type(derived.parameter) = "Matrix") =>
        LET c == derived.parameter.component_count
            a == derived.parameter.array_size
            element == get_type_basic(derived.parameter)
        IN  /\ derived.type_id # DivisionByZero
            /\ derived.type_id = IF EvenlyDivisible(c * a, c * c)
                                 THEN makeMatrixType(element, c, c)
                                 ELSE makeVectorType(element, c)


(***************************************************************************)
(* C17: two recompilations run concurrently on independent threads, each   *)
(* with its own builder and SpirvShaderParameters, share no mutable state: *)
(* under every interleaving each thread has, after each of its steps,      *)
(* exactly the banks, the builder and the output it has after as many      *)
(* steps when run alone, and the only shared objects are the static        *)
(* property tables, constructed once and never written.                    *)
(***************************************************************************)
\* The locals of a recompilation of `program` run alone, after k steps.
RECURSIVE Alone(_, _)
Alone(program, k) ==
    IF k = 0 THEN Start(program) ELSE thread_step(Alone(program, k - 1))

VarIds(storage_class) ==
    {id \in 1..Len(b.vars) : b.vars[id].storage_class = storage_class}

Occurrences(seq, x) == Cardinality({k \in 1..Len(seq) : seq[k] = x})

C18_InterfaceList ==
    pc \in {"cross", "done"} =>
        LET operands == b.entry_points[1].operands
        IN  /\ \A id \in VarIds("Input") \cup VarIds("Output") :
                  Occurrences(operands, id) = 1
            /\ \A k \in 1..Len(operands) :
                  operands[k] \in VarIds("Input") \cup VarIds("Output")
            /\ \A k1, k2 \in 1..Len(operands) :
                  (k1 < k2 /\ b.vars[operands[k1]].storage_class
                                 = b.vars[operands[k2]].storage_class)
                      => operands[k1] < operands[k2]
            /\ \A k1, k2 \in 1..Len(operands) :
                  (k1 < k2 /\ operands[k1] \in VarIds("Output"))
                      => operands[k2] \in VarIds("Output")

(***************************************************************************)
(* C19: for a fragment program with native-color = false whose             *)
(* PRIMARY-ATTRIBUTE bank total size already exceeds primary_reg_count,    *)
(* the unsigned difference primary_reg_count - ins.size() wraps to a value *)
(* greater than 2, the error branch is taken, no padding variable is made  *)
(* and the padding step leaves the PRIMARY-ATTRIBUTE bank unchanged.       *)
(***************************************************************************)
Oversubscribed ==
    /\ program_type = "Fragment"
    /\ ~native_color'
    /\ size(spv_params.ins) > primary_reg_count'

C19_WrappedDifference ==
    [][(PaddingStep /\ Oversubscribed) =>
          /\ size_t_greater(missing_primary_attrs(primary_reg_count', spv_params.ins), 2)
          /\ missing_primary_attrs(primary_reg_count', spv_params.ins)[4] = LimbBase - 1
          /\ spv_params'.ins = spv_params.ins
          /\ NothingAppended]_vars

\* The bank holds 6 registers (an array of three 2-component attributes)
\* and the program declares 2: the step is over and made no pa0_blend.
C19_Witness ==
    /\ pc = "entry"
    /\ program_type = "Fragment"
    /\ ~native_color
    /\ params = <<PosArray>>
    /\ fragment_inputs = {}
    /\ primary_reg_count = 2
    /\ size(spv_params.ins) = 6
    /\ \A id \in 1..Len(b.vars) : b.vars[id].name # <<"pa0", "_", "blend">>

(***************************************************************************)
(* C20: for any parameter list, every field accumulated into a struct      *)
(* context during the scan is a member of exactly one emitted struct       *)
(* variable or of the context still open (none lost, none duplicated,      *)
(* order preserved), each emitted struct occupies exactly one bank record, *)
(* of size 1, and the struct context is empty once the scan is over.       *)
(***************************************************************************)
\* The descriptors scanned so far that the scan accumulates as fields.
AccumulatedParams ==
    IF program_type = "Fragment"
    THEN SelectSeq(params, LAMBDA parameter :
                       /\ parameter.category = "ATTRIBUTE"
                       /\ parameter_struct_name(parameter) # <<>>)
    ELSE <<>>

\* Ids of the struct variables emitted so far, in order of emission.
StructVarIds == {id \in 1..Len(b.vars) : b.vars[id].type.kind = "struct"}

\* The members of the struct variables of vars, then of the open context:
\* <<struct name, field name, field type>> each.
RECURSIVE MembersOf(_)
MembersOf(variables) ==
    IF variables = <<>> THEN <<>>
    ELSE (IF variables[1].type.kind = "struct"
          THEN [k \in 1..Len(variables[1].type.field_names) |->
                   <<variables[1].type.name, variables[1].type.field_names[k],
                     variables[1].type.field_ids[k]>>]
          ELSE <<>>)
         \o MembersOf(Tail(variables))

OpenMembers ==
    [k \in 1..Len(param_struct.field_names) |->
        <<param_struct.name, param_struct.field_names[k], param_struct.field_ids[k]>>]

C20_FieldsPreserved ==
    /\ MembersOf(b.vars) \o OpenMembers =
          [k \in 1..Len(AccumulatedParams) |->
              <<parameter_struct_name(AccumulatedParams[k]),
                parameter_name(AccumulatedParams[k]),
                get_param_type(AccumulatedParams[k])>>]
    /\ \A id \in StructVarIds :
          /\ Len(b.vars[id].type.field_names) >= 1
          /\ Len(b.vars[id].type.field_ids) = Len(b.vars[id].type.field_names)
          /\ \E k \in 1..Len(spv_params.ins.vars) :
                /\ spv_params.ins.vars[k].var_id = id
                /\ spv_params.ins.vars[k].size = 1
                /\ \A name \in BankNames :
                      \A j \in 1..Len(spv_params[name].vars) :
                         spv_params[name].vars[j].var_id = id
                             => (name = "ins" /\ j = k)
    /\ pc \notin {"scan", "aborted", "fault"} => param_struct = EmptyStruct

\* Two structs emitted: Light of two fields, closed by the first field of
\* Fog, and Fog of one field, emitted by the flush.
C20_Witness ==
    /\ pc = "stage"
    /\ program_type = "Fragment"
    /\ params = <<LightColor, LightIntensity, FogDensity>>
    /\ Cardinality(StructVarIds) = 2
    /\ Len(MembersOf(b.vars)) = 3
    /\ param_struct = EmptyStruct

=============================================================================
